---- MODULE Spec2Model ----
(***************************************************************************)
(* A model of libcloud's VMware vSphere compute driver                     *)
(* (libcloud/compute/drivers/vsphere.py, class VSphereNodeDriver).         *)
(*                                                                         *)
(* The vSphere inventory is a tree of managed objects.  It is kept in the  *)
(* sequence inv: an object's identity is its index, the root folder is     *)
(* object 1, and the absent object (Python's None) is 0.                   *)
(*                                                                         *)
(* The provider is a collaborator of the driver: a remote operation is     *)
(* modelled by its being issued and by its task completing later, a fault  *)
(* raised by the provider is not.  A completed Clone adds nothing to the   *)
(* inventory of a run.                                                     *)
(***************************************************************************)
EXTENDS Naturals, Sequences, FiniteSets, TLC

VARIABLES inv, ret, gd, call, issued, tasks

vars == <<inv, ret, gd, call, issued, tasks>>

(***************************************************************************)
(* Bounds of the model.                                                    *)
(***************************************************************************)
MaxObj == 7
MaxDatastores == 2

None == 0
Root == 1

DatacenterNames == {"DC1", "DC2"}
ClusterNames == {"C1", "C2"}
PathNames == {"[ds] app/app.vmx", "[ds] base/base.vmtx", "[ds] app/app.vmx.bak"}
PowerStates == {"poweredOn", "poweredOff", "suspended", "paused"}

(***************************************************************************)
(* The managed objects.                                                    *)
(***************************************************************************)
Obj(kind, parent, name) ==
    [kind |-> kind, parent |-> parent, name |-> name,
     vmFolder |-> None, hostFolder |-> None, resourcePool |-> None,
     instanceUuid |-> "", vmPathName |-> "", guestFullName |-> "",
     powerState |-> "", net |-> <<>>, datastore |-> <<>>]

Objects(I) == 1..Len(I)

isinstance(I, o, kind) == o \in Objects(I) /\ I[o].kind = kind

\* folder.childEntity: the children of a folder, in the provider's order.
RECURSIVE childrenFrom(_, _, _)
childrenFrom(I, folder, o) ==
    IF o > Len(I) THEN <<>>
    ELSE (IF I[o].parent = folder THEN <<o>> ELSE <<>>)
         \o childrenFrom(I, folder, o + 1)

childEntity(I, folder) == childrenFrom(I, folder, 1)

\* The kind of inventory a folder holds: the root folder's, a datacenter's
\* VM folder tree ("vm") or its host folder tree ("host").
RECURSIVE FolderFlavor(_, _)
FolderFlavor(I, f) ==
    IF f = Root THEN "root"
    ELSE LET p == I[f].parent IN
         IF I[p].kind = "Datacenter"
         THEN (IF I[p].vmFolder = f THEN "vm" ELSE "host")
         ELSE FolderFlavor(I, p)

(***************************************************************************)
(* Inventory Walker.                                                       *)
(***************************************************************************)
_root(I) == Root

_datacenters(I) ==
    LET IsDc(dc) == isinstance(I, dc, "Datacenter")
    IN  SelectSeq(childEntity(I, _root(I)), IsDc)

RECURSIVE vms_in(_, _)
RECURSIVE vms_in_each(_, _)
\* the body of "for node in folder.childEntity" for the children cs
vms_in_each(I, cs) ==
    IF cs = <<>> THEN <<>>
    ELSE LET node == Head(cs) IN
         (IF isinstance(I, node, "Folder") THEN vms_in(I, node)
          ELSE IF isinstance(I, node, "VirtualMachine") THEN <<node>>
          ELSE <<>>) \o vms_in_each(I, Tail(cs))

\* a faulty variant: a vms_in that does not descend into the folders of the folder
vms_in_flat(I, folder) ==
    LET IsVm(node) == isinstance(I, node, "VirtualMachine")
    IN  SelectSeq(childEntity(I, folder), IsVm)

vms_in(I, folder) == vms_in_each(I, childEntity(I, folder))

RECURSIVE vmFolderChildren(_, _)
\* the generator "nodes": every child of every datacenter's vmFolder
vmFolderChildren(I, dcs) ==
    IF dcs = <<>> THEN <<>>
    ELSE childEntity(I, I[Head(dcs)].vmFolder) \o vmFolderChildren(I, Tail(dcs))

RECURSIVE vms_of(_, _)
\* the loop "for node in nodes" that fills the list vms
vms_of(I, nodes) ==
    IF nodes = <<>> THEN <<>>
    ELSE LET node == Head(nodes) IN
         (IF isinstance(I, node, "Folder") THEN vms_in(I, node)
          ELSE IF isinstance(I, node, "VirtualMachine") THEN <<node>>
          ELSE <<>>) \o vms_of(I, Tail(nodes))

_vms(I) == vms_of(I, vmFolderChildren(I, _datacenters(I)))

(***************************************************************************)
(* Outcomes of a Python expression: a value, or a raised exception.        *)
(***************************************************************************)
Ok(v) == [outcome |-> "ok", value |-> v]
Raise(exc) == [outcome |-> exc, value |-> None]

(***************************************************************************)
(* Object Resolver.                                                        *)
(***************************************************************************)
\* container.view of CreateContainerView(rootFolder, vimtype, True): every
\* object of one of the types, anywhere below the root folder.
ContainerView(I, vimtype) ==
    {o \in Objects(I) : \E k \in 1..Len(vimtype) : I[o].kind = vimtype[k]}

\* The objects _get_obj_by_name may return: the first of the view with the
\* name, in the order the provider lists the view, or None when there is none.
_get_obj_by_name(I, vimtype, name) ==
    LET named == {i \in ContainerView(I, vimtype) : I[i].name = name}
    IN  IF named = {} THEN {None} ELSE named

\* searchIndex.FindByUuid(None, uuid, vmSearch=True, instanceUuid=True)
_get_obj_by_uuid(I, uuid) ==
    LET found == {o \in Objects(I) : /\ I[o].kind = "VirtualMachine"
                                     /\ I[o].instanceUuid = uuid}
    IN  IF found = {} THEN None ELSE CHOOSE o \in found : TRUE

\* a faulty variant: a lenient obj.parent, None for None: getattr(obj, "parent", None)
attr_parent_or_none(I, obj) == Ok(IF obj = None THEN None ELSE I[obj].parent)

\* obj.parent, which raises AttributeError on None
attr_parent(I, obj) ==
    IF obj = None THEN Raise("AttributeError") ELSE Ok(I[obj].parent)

\* the test of the while loop of _get_datacenter
datacenter_found(I, datacenter) == isinstance(I, datacenter, "Datacenter")

RECURSIVE datacenter_loop(_, _)
datacenter_loop(I, datacenter) ==
    IF datacenter_found(I, datacenter) THEN Ok(datacenter)
    ELSE LET up == attr_parent(I, datacenter) IN
         IF up.outcome # "ok" THEN up ELSE datacenter_loop(I, up.value)

_get_datacenter(I, obj) ==
    LET first == attr_parent(I, obj) IN
    IF first.outcome # "ok" THEN first ELSE datacenter_loop(I, first.value)

(***************************************************************************)
(* Node/Image Translator.                                                  *)
(***************************************************************************)
NodeState ==
    [RUNNING |-> "running", STOPPED |-> "stopped",
     SUSPENDED |-> "suspended", UNKNOWN |-> "unknown"]

NODE_STATE_MAP ==
    [ps \in {"poweredOn", "poweredOff", "suspended"} |->
        CASE ps = "poweredOn" -> NodeState.RUNNING
          [] ps = "poweredOff" -> NodeState.STOPPED
          [] ps = "suspended" -> NodeState.SUSPENDED]

\* dict.get(key, default)
dict_get(d, key, default) == IF key \in DOMAIN d THEN d[key] ELSE default

\* a faulty variant: a state map whose default is RUNNING
node_state_default_running(powerState) ==
    dict_get(NODE_STATE_MAP, powerState, NodeState.RUNNING)

\* line 136: NODE_STATE_MAP.get(powerState, NodeState.UNKNOWN)
node_state(powerState) == dict_get(NODE_STATE_MAP, powerState, NodeState.UNKNOWN)

\* s.endswith(suffix)
endswith(s, suffix) ==
    /\ Len(s) >= Len(suffix)
    /\ SubSeq(s, Len(s) - Len(suffix) + 1, Len(s)) = suffix

\* needle in s
contains(s, needle) ==
    \E k \in 0..Len(s) :
        k + Len(needle) <= Len(s) /\ SubSeq(s, k + 1, k + Len(needle)) = needle

\* is_public_subnet(addr): True, False, or OSError from inet_aton for an
\* address that is no IPv4 address
is_public_subnet(addr) ==
    IF addr \in {"fe80::1"} THEN Raise("OSError")
    ELSE [outcome |-> "ok", value |-> addr \notin {"10.0.0.5", "192.168.1.9"}]

RECURSIVE flatten(_)
flatten(ss) == IF ss = <<>> THEN <<>> ELSE Head(ss) \o flatten(Tail(ss))

\* the addresses the loop over vm.guest.net appends to public_ips / private_ips
ips_of(net, public) ==
    LET Keep(addr) == LET r == is_public_subnet(addr)
                      IN  r.outcome = "ok" /\ r.value = public
    IN  SelectSeq(flatten(net), Keep)

_to_node(I, vm) ==
    IF vm = None THEN Raise("AttributeError")
    ELSE LET datacenter == _get_datacenter(I, vm) IN
         IF datacenter.outcome # "ok" THEN datacenter
         ELSE Ok([id |-> I[vm].instanceUuid,
                  name |-> I[vm].name,
                  state |-> node_state(I[vm].powerState),
                  public_ips |-> ips_of(I[vm].net, TRUE),
                  private_ips |-> ips_of(I[vm].net, FALSE),
                  extra |-> [path |-> I[vm].vmPathName,
                             os_type |-> IF contains(I[vm].guestFullName, "Microsoft")
                                         THEN "windows" ELSE "unix",
                             datacenter |-> datacenter.value]])

\* sep.join(*args): str.join takes exactly one argument, the iterable
RECURSIVE join_strings(_, _)
join_strings(sep, strs) ==
    IF strs = <<>> THEN ""
    ELSE IF Len(strs) = 1 THEN strs[1]
    ELSE strs[1] \o sep \o join_strings(sep, Tail(strs))

str_join(sep, args) ==
    IF Len(args) # 1 THEN Raise("TypeError") ELSE Ok(join_strings(sep, args[1]))

\* a list comprehension: the results of the elements, or the first exception
RECURSIVE collect(_)
collect(rs) ==
    IF rs = <<>> THEN Ok(<<>>)
    ELSE IF Head(rs).outcome # "ok" THEN Raise(Head(rs).outcome)
    ELSE LET rest == collect(Tail(rs)) IN
         IF rest.outcome # "ok" THEN rest
         ELSE Ok(<<Head(rs).value>> \o rest.value)

RECURSIVE location_pairs(_, _)
\* "for dc in self._datacenters for cl in dc.hostFolder.childEntity"
location_pairs(I, dcs) ==
    IF dcs = <<>> THEN <<>>
    ELSE LET dc == Head(dcs)
             cls == childEntity(I, I[dc].hostFolder)
         IN  [k \in 1..Len(cls) |-> <<dc, cls[k]>>] \o location_pairs(I, Tail(dcs))

NodeLocation(dc_cl) ==
    LET id == str_join("/", <<dc_cl.dc, dc_cl.cl>>) IN
    IF id.outcome # "ok" THEN id
    ELSE Ok([id |-> id.value, name |-> dc_cl.cl])

list_locations(I) ==
    LET pairs == location_pairs(I, _datacenters(I))
    IN  collect([k \in 1..Len(pairs) |->
                    NodeLocation([dc |-> I[pairs[k][1]].name,
                                  cl |-> I[pairs[k][2]].name])])

\* a faulty variant: a node is whatever is no template
is_node_not_template(I, n) == ~endswith(I[n].vmPathName, ".vmtx")

is_node(I, n) == endswith(I[n].vmPathName, ".vmx")

list_nodes(I) ==
    LET Runnable(n) == is_node(I, n)
        ns == SelectSeq(_vms(I), Runnable)
    IN  collect([k \in 1..Len(ns) |-> _to_node(I, ns[k])])

is_image(I, n) == endswith(I[n].vmPathName, ".vmtx")

list_images(I) ==
    LET Template(n) == is_image(I, n)
        imgs == SelectSeq(_vms(I), Template)
    IN  Ok([k \in 1..Len(imgs) |->
               [id |-> I[imgs[k]].instanceUuid, name |-> I[imgs[k]].name]])

(***************************************************************************)
(* The state.                                                              *)
(*   inv     the provider's inventory                                      *)
(*   ret     what the last listing calls returned for the inventory as is  *)
(*   gd      the frame of a running _get_datacenter                        *)
(*   call    the frame of the running (or last) lifecycle call             *)
(*   issued  the remote operations that call has issued, in order          *)
(*   tasks   the provider's tasks for those operations                     *)
(***************************************************************************)
NoResult == [outcome |-> "none", value |-> None]
NoResults == [vms |-> NoResult, nodes |-> NoResult,
              images |-> NoResult, locations |-> NoResult]
GdIdle == [pc |-> "idle", obj |-> None, datacenter |-> None, exc |-> "none"]
CallIdle == [op |-> "none", pc |-> "idle"]

RootOnly == <<Obj("Folder", None, "root")>>

InitInventory ==
    /\ inv = RootOnly
    /\ ret = NoResults
    /\ gd = GdIdle
    /\ call = CallIdle
    /\ issued = <<>>
    /\ tasks = <<>>

(***************************************************************************)
(* The provider's side: the inventory grows.                               *)
(***************************************************************************)
Quiet == gd.pc # "loop"

Grow(objs) ==
    /\ Quiet
    /\ Len(inv) + Len(objs) <= MaxObj
    /\ inv' = inv \o objs
    /\ ret' = NoResults
    /\ gd' = GdIdle
    /\ UNCHANGED <<call, issued, tasks>>

\* a datacenter comes with its VM folder and its host folder
AddDatacenter ==
    \E p \in Objects(inv), nm \in DatacenterNames :
        /\ inv[p].kind = "Folder"
        /\ FolderFlavor(inv, p) = "root"
        /\ LET dc == Len(inv) + 1 IN
           Grow(<<[Obj("Datacenter", p, nm) EXCEPT !.vmFolder = dc + 1,
                                                   !.hostFolder = dc + 2],
                  Obj("Folder", dc, "vm"),
                  Obj("Folder", dc, "host")>>)

AddFolder ==
    \E p \in Objects(inv) :
        /\ inv[p].kind = "Folder"
        /\ Grow(<<Obj("Folder", p, "folder")>>)

AddVirtualApp ==
    \E p \in Objects(inv) :
        /\ inv[p].kind = "Folder"
        /\ FolderFlavor(inv, p) = "vm"
        /\ Grow(<<Obj("VirtualApp", p, "vapp")>>)

\* a virtual machine is created powered off
AddVirtualMachine ==
    \E p \in Objects(inv), path \in PathNames :
        /\ \/ inv[p].kind = "Folder" /\ FolderFlavor(inv, p) = "vm"
           \/ inv[p].kind = "VirtualApp"
        /\ LET vm == Len(inv) + 1 IN
           Grow(<<[Obj("VirtualMachine", p, "vm" \o ToString(vm))
                      EXCEPT !.instanceUuid = "u" \o ToString(vm),
                             !.vmPathName = path,
                             !.guestFullName = "Other Linux (64-bit)",
                             !.powerState = "poweredOff"]>>)

AddCluster ==
    \E p \in Objects(inv), nm \in ClusterNames :
        /\ inv[p].kind = "Folder"
        /\ FolderFlavor(inv, p) = "host"
        /\ LET cl == Len(inv) + 1 IN
           Grow(<<[Obj("ClusterComputeResource", p, nm)
                      EXCEPT !.resourcePool = cl]>>)

(***************************************************************************)
(* The listing calls.                                                      *)
(***************************************************************************)
Vms ==
    /\ Quiet
    /\ ret' = [ret EXCEPT !.vms = Ok(_vms(inv))]
    /\ UNCHANGED <<inv, gd, call, issued, tasks>>

ListLocations ==
    /\ Quiet
    /\ ret' = [ret EXCEPT !.locations = list_locations(inv)]
    /\ UNCHANGED <<inv, gd, call, issued, tasks>>

ListNodes ==
    /\ Quiet
    /\ ret' = [ret EXCEPT !.nodes = list_nodes(inv)]
    /\ UNCHANGED <<inv, gd, call, issued, tasks>>

ListImages ==
    /\ Quiet
    /\ ret' = [ret EXCEPT !.images = list_images(inv)]
    /\ UNCHANGED <<inv, gd, call, issued, tasks>>

NextList ==
    \/ AddDatacenter
    \/ AddFolder
    \/ AddVirtualApp
    \/ AddVirtualMachine
    \/ AddCluster
    \/ Vms
    \/ ListLocations
    \/ ListNodes
    \/ ListImages

SpecList == InitInventory /\ [][NextList]_vars

(***************************************************************************)
(* _get_datacenter, one iteration of its loop at a time.                   *)
(***************************************************************************)
GetDatacenterCall ==
    \E obj \in Objects(inv) \cup {None} :
        /\ Quiet
        /\ LET first == attr_parent(inv, obj) IN
           gd' = IF first.outcome # "ok"
                 THEN [pc |-> "raised", obj |-> obj, datacenter |-> None,
                       exc |-> first.outcome]
                 ELSE [pc |-> "loop", obj |-> obj, datacenter |-> first.value,
                       exc |-> "none"]
        /\ UNCHANGED <<inv, ret, call, issued, tasks>>

GetDatacenterLoop ==
    /\ gd.pc = "loop"
    /\ IF datacenter_found(inv, gd.datacenter)
       THEN gd' = [gd EXCEPT !.pc = "returned"]
       ELSE LET up == attr_parent(inv, gd.datacenter) IN
            gd' = IF up.outcome # "ok"
                  THEN [gd EXCEPT !.pc = "raised", !.exc = up.outcome]
                  ELSE [gd EXCEPT !.datacenter = up.value]
    /\ UNCHANGED <<inv, ret, call, issued, tasks>>

NextWalk ==
    \/ AddDatacenter
    \/ AddFolder
    \/ AddVirtualApp
    \/ AddVirtualMachine
    \/ AddCluster
    \/ GetDatacenterCall
    \/ GetDatacenterLoop

\* a running loop keeps running: the interpreter does not stop a thread
SpecWalk == InitInventory /\ [][NextWalk]_vars /\ WF_vars(GetDatacenterLoop)

(***************************************************************************)
(* Lifecycle Orchestrator.                                                 *)
(*                                                                         *)
(* The driver is used by one thread: a call starts when the one before it  *)
(* has returned or raised.  A remote operation is recorded in issued when  *)
(* the driver issues it; the provider completes its task later.            *)
(***************************************************************************)
Ended == call.pc \in {"idle", "done", "raised"}

Task(op, target) == [op |-> op, target |-> target, completeTime |-> FALSE]

Issue(op, target, args, task) ==
    [op |-> op, target |-> target, args |-> args, task |-> task]

Frame(op, pc, arg, n, node, task, exc) ==
    [op |-> op, pc |-> pc, arg |-> arg, n |-> n, node |-> node,
     task |-> task, exc |-> exc, livePower |-> IF n = None THEN "" ELSE inv[n].powerState]

\* a faulty variant: a reboot that never powers on
reboot_op_guest_only(node) == "RebootGuest"

\* line 183: the remote operation reboot_node chooses
reboot_op(node) == IF node.state = "stopped" THEN "PowerOn" ELSE "RebootGuest"

\* n.<method>() for a method that starts a task: AttributeError on None
MethodCall(op, frameOp, arg, n) ==
    IF n = None
    THEN /\ call' = Frame(frameOp, "raised", arg, n, arg, None, "AttributeError")
         /\ issued' = <<>>
         /\ tasks' = <<>>
    ELSE /\ call' = Frame(frameOp, "done", arg, n, arg,
                          IF op = "RebootGuest" THEN None ELSE 1, "none")
         /\ issued' = <<Issue(op, n, None, IF op = "RebootGuest" THEN None ELSE 1)>>
         /\ tasks' = IF op = "RebootGuest" THEN <<>> ELSE <<Task(op, n)>>

NodeIds == {"u1", "u2", "u9"}
NodeArgs == [id : NodeIds, state : {NodeState[k] : k \in DOMAIN NodeState}]

RebootNode ==
    \E node \in NodeArgs :
        /\ Ended
        /\ MethodCall(reboot_op(node), "reboot_node", node,
                      _get_obj_by_uuid(inv, node.id))
        /\ UNCHANGED <<inv, ret, gd>>

ExStopNode ==
    \E node \in NodeArgs :
        /\ Ended
        /\ MethodCall("PowerOff", "ex_stop_node", node,
                      _get_obj_by_uuid(inv, node.id))
        /\ UNCHANGED <<inv, ret, gd>>

ExStartNode ==
    \E node \in NodeArgs :
        /\ Ended
        /\ MethodCall("PowerOn", "ex_start_node", node,
                      _get_obj_by_uuid(inv, node.id))
        /\ UNCHANGED <<inv, ret, gd>>

\* a faulty variant: destroy_node going by the record it was passed
destroy_node_record_stale(I, n, node) ==
    IF n = None THEN Raise("AttributeError") ELSE Ok(node)

\* line 190: the node record destroy_node goes by
destroy_node_record(I, n, node) == _to_node(I, n)

\* lines 189-190
DestroyNodeCall ==
    \E node \in NodeArgs :
        /\ Ended
        /\ LET n == _get_obj_by_uuid(inv, node.id)
               live == destroy_node_record(inv, n, node)
           IN  call' = IF live.outcome # "ok"
                       THEN Frame("destroy_node", "raised", node, n, node, None,
                                  live.outcome)
                       ELSE Frame("destroy_node", "if", node, n, live.value, None,
                                  "none")
        /\ issued' = <<>>
        /\ tasks' = <<>>
        /\ UNCHANGED <<inv, ret, gd>>

\* lines 191-192
DestroyNodeIf ==
    /\ call.op = "destroy_node"
    /\ call.pc = "if"
    /\ IF call.node.state # "stopped"
       THEN /\ call' = [call EXCEPT !.pc = "while", !.task = Len(tasks) + 1]
            /\ issued' = Append(issued, Issue("PowerOff", call.n, None, Len(tasks) + 1))
            /\ tasks' = Append(tasks, Task("PowerOff", call.n))
       ELSE /\ call' = [call EXCEPT !.pc = "destroy"]
            /\ UNCHANGED <<issued, tasks>>
    /\ UNCHANGED <<inv, ret, gd>>

\* a faulty variant: a wait that gives up at once
wait_over_at_once(task) == TRUE

\* line 193: the test that ends the wait
wait_over(task) == task.completeTime

\* lines 193-194: one turn of the busy wait
DestroyNodeWhile ==
    /\ call.op = "destroy_node"
    /\ call.pc = "while"
    /\ call' = IF wait_over(tasks[call.task])
               THEN [call EXCEPT !.pc = "destroy"]
               ELSE call
    /\ UNCHANGED <<inv, ret, gd, issued, tasks>>

\* line 195
DestroyNodeDestroy ==
    /\ call.op = "destroy_node"
    /\ call.pc = "destroy"
    /\ call' = [call EXCEPT !.pc = "done"]
    /\ issued' = Append(issued, Issue("Destroy", call.n, None, Len(tasks) + 1))
    /\ tasks' = Append(tasks, Task("Destroy", call.n))
    /\ UNCHANGED <<inv, ret, gd>>

\* a faulty variant: a clone specification with the template's last datastore
clonespec_last_datastore(I, template, pool) ==
    IF Len(I[template].datastore) = 0 THEN Raise("IndexError")
    ELSE Ok([location |-> [datastore |-> I[template].datastore[Len(I[template].datastore)],
                           pool |-> pool],
             powerOn |-> TRUE])

\* lines 204-210: the clone specification
clonespec(I, template, pool) ==
    IF Len(I[template].datastore) = 0 THEN Raise("IndexError")
    ELSE Ok([location |-> [datastore |-> I[template].datastore[1], pool |-> pool],
             powerOn |-> TRUE])

\* cluster.resourcePool, which raises AttributeError on None
attr_resourcePool(I, cluster) ==
    IF cluster = None THEN Raise("AttributeError") ELSE Ok(I[cluster].resourcePool)

LocationNames == ClusterNames \cup {"C9"}
CreateArgs ==
    [name : {"clone1"},
     location : [id : {"DC1/C1"}, name : LocationNames],
     clone_from : [id : NodeIds]]

CreateNode ==
    \E arg \in CreateArgs :
        /\ Ended
        /\ LET template == _get_obj_by_uuid(inv, arg.clone_from.id)
               datacenter == _get_datacenter(inv, template)
           IN  \E cluster \in _get_obj_by_name(inv, <<"ClusterComputeResource">>,
                                               arg.location.name) :
                 LET pool == attr_resourcePool(inv, cluster)
                     spec == clonespec(inv, template, pool.value)
                     exc == IF datacenter.outcome # "ok" THEN datacenter.outcome
                            ELSE IF pool.outcome # "ok" THEN pool.outcome
                            ELSE spec.outcome
                 IN  IF exc # "ok"
                     THEN /\ call' = Frame("create_node", "raised", arg, template,
                                           arg, None, exc)
                          /\ issued' = <<>>
                          /\ tasks' = <<>>
                     ELSE /\ call' = Frame("create_node", "done", arg, template,
                                           arg, 1, "none")
                          /\ issued' = <<Issue("Clone", template,
                                               [folder |-> inv[datacenter.value].vmFolder,
                                                name |-> arg.name,
                                                spec |-> spec.value], 1)>>
                          /\ tasks' = <<Task("Clone", template)>>
        /\ UNCHANGED <<inv, ret, gd>>

(***************************************************************************)
(* The provider's side of the lifecycle: tasks complete, power changes.    *)
(***************************************************************************)
TaskEffect(I, task) ==
    IF I[task.target].kind # "VirtualMachine" THEN I
    ELSE IF task.op = "PowerOff" THEN [I EXCEPT ![task.target].powerState = "poweredOff"]
    ELSE IF task.op = "PowerOn" /\ ~endswith(I[task.target].vmPathName, ".vmtx")
         THEN [I EXCEPT ![task.target].powerState = "poweredOn"]
    ELSE IF task.op = "Destroy"
         THEN [I EXCEPT ![task.target].kind = "Destroyed",
                        ![task.target].parent = None]
    ELSE I

CompleteTask ==
    \E t \in 1..Len(tasks) :
        /\ ~tasks[t].completeTime
        /\ tasks' = [tasks EXCEPT ![t].completeTime = TRUE]
        /\ inv' = TaskEffect(inv, tasks[t])
        /\ ret' = NoResults
        /\ UNCHANGED <<gd, call, issued>>

\* the power state of a VM that is no template changes behind the driver's back
PowerChange ==
    \E vm \in Objects(inv), ps \in PowerStates :
        /\ inv[vm].kind = "VirtualMachine"
        /\ ~endswith(inv[vm].vmPathName, ".vmtx")
        /\ inv[vm].powerState # ps
        /\ inv' = [inv EXCEPT ![vm].powerState = ps]
        /\ ret' = NoResults
        /\ UNCHANGED <<gd, call, issued, tasks>>

(***************************************************************************)
(* The inventories of the lifecycle runs: a datacenter DC1 with cluster C1,*)
(* the VM u1 and the template u2, and possibly a second datacenter with a  *)
(* cluster of its own.                                                     *)
(***************************************************************************)
\* the datastore lists of the template: none, or n datastores, the first of
\* them the one numbered n
DatastoreLists == {[k \in 1..n |-> n + 1 - k] : n \in 0..MaxDatastores}

Scenario(datastores, second) ==
    <<Obj("Folder", None, "root"),
      [Obj("Datacenter", 1, "DC1") EXCEPT !.vmFolder = 3, !.hostFolder = 4],
      Obj("Folder", 2, "vm"),
      Obj("Folder", 2, "host"),
      [Obj("ClusterComputeResource", 4, "C1") EXCEPT !.resourcePool = 5],
      [Obj("VirtualMachine", 3, "app") EXCEPT
          !.instanceUuid = "u1", !.vmPathName = "[ds] app/app.vmx",
          !.guestFullName = "Microsoft Windows Server 2012 (64-bit)",
          !.powerState = "poweredOn",
          !.net = <<<<"10.0.0.5", "8.8.8.8">>, <<"fe80::1", "192.168.1.9">>>>,
          !.datastore = <<1>>],
      [Obj("VirtualMachine", 3, "base") EXCEPT
          !.instanceUuid = "u2", !.vmPathName = "[ds] base/base.vmtx",
          !.guestFullName = "Other Linux (64-bit)",
          !.powerState = "poweredOff",
          !.datastore = datastores]>>
    \o (IF second = "" THEN <<>>
        ELSE <<[Obj("Datacenter", 1, "DC2") EXCEPT !.vmFolder = 9, !.hostFolder = 10],
               Obj("Folder", 8, "vm"),
               Obj("Folder", 8, "host"),
               [Obj("ClusterComputeResource", 10, second) EXCEPT !.resourcePool = 11]>>)

Init ==
    /\ inv \in {Scenario(ds, second) :
                   ds \in DatastoreLists, second \in ClusterNames \cup {""}}
    /\ ret = NoResults
    /\ gd = GdIdle
    /\ call = CallIdle
    /\ issued = <<>>
    /\ tasks = <<>>

Next ==
    \/ ListNodes
    \/ RebootNode
    \/ ExStopNode
    \/ ExStartNode
    \/ DestroyNodeCall
    \/ DestroyNodeIf
    \/ DestroyNodeWhile
    \/ DestroyNodeDestroy
    \/ CreateNode
    \/ CompleteTask
    \/ PowerChange

Spec == Init /\ [][Next]_vars

(***************************************************************************)
(* What the claims speak of, stated without the driver's own traversal.    *)
(***************************************************************************)
Range(s) == {s[k] : k \in 1..Len(s)}

NoDuplicates(s) == \A j, k \in 1..Len(s) : s[j] = s[k] => j = k

\* the k-th object up the parent links (None once past the root)
RECURSIVE Ancestor(_, _, _)
Ancestor(I, o, k) ==
    IF k = 0 \/ o = None THEN o ELSE Ancestor(I, I[o].parent, k - 1)

\* f is the VM folder of a datacenter that is a child of the root folder
IsRootVmFolder(I, f) ==
    /\ f # None
    /\ LET d == I[f].parent IN
       /\ d # None
       /\ I[d].kind = "Datacenter"
       /\ I[d].vmFolder = f
       /\ I[d].parent = Root

\* v is a VM below such a VM folder with nothing but folders in between
InVmFolderTree(I, v) ==
    /\ I[v].kind = "VirtualMachine"
    /\ \E k \in 1..Len(I) :
          /\ IsRootVmFolder(I, Ancestor(I, v, k))
          /\ \A j \in 1..k : I[Ancestor(I, v, j)].kind = "Folder"

EnumeratedVms(I) == {v \in Objects(I) : InVmFolderTree(I, v)}

HasSuffix(path, suffix) ==
    \E k \in 0..Len(path) : SubSeq(path, k + 1, Len(path)) = suffix

Ids(records) == {records[k].id : k \in 1..Len(records)}

\* the nearest datacenter strictly above obj, or None
DatacenterAbove(I, obj) ==
    LET ks == {k \in 1..Len(I) : LET a == Ancestor(I, obj, k)
                                 IN  a # None /\ I[a].kind = "Datacenter"}
    IN  IF obj = None \/ ks = {} THEN None
        ELSE Ancestor(I, obj, CHOOSE k \in ks : \A j \in ks : k <= j)

(***************************************************************************)
(* C6: _vms yields exactly the VMs below the VM folders of the root's      *)
(* datacenters that are reached through folders only, each exactly once;   *)
(* it yields no folder, skips children of every other type, and root       *)
(* children that are not datacenters contribute nothing.                   *)
(***************************************************************************)
C6_VmsExactlyOnce ==
    ret.vms.outcome # "none" =>
        /\ ret.vms.outcome = "ok"
        /\ NoDuplicates(ret.vms.value)
        /\ \A v \in Range(ret.vms.value) : inv[v].kind = "VirtualMachine"
        /\ Range(ret.vms.value) = EnumeratedVms(inv)

\* a VM two folders below the VM folder has been yielded
C6_Witness ==
    /\ ret.vms.outcome = "ok"
    /\ \E v \in Range(ret.vms.value) :
          /\ inv[inv[v].parent].kind = "Folder"
          /\ inv[inv[inv[v].parent].parent].kind = "Folder"
          /\ ~IsRootVmFolder(inv, inv[v].parent)
          /\ ~IsRootVmFolder(inv, inv[inv[v].parent].parent)

LocationPairs(I) ==
    {<<dc, cl>> \in Objects(I) \X Objects(I) :
        /\ I[dc].kind = "Datacenter"
        /\ I[dc].parent = Root
        /\ I[cl].parent = I[dc].hostFolder}

\* C2: list_locations returns, for every (datacenter, cluster) pair, one
\* Location with id "<datacenter name>/<cluster name>" and the cluster's name
C2_OneLocationPerCluster ==
    ret.locations.outcome # "none" =>
        /\ ret.locations.outcome = "ok"
        /\ Len(ret.locations.value) = Cardinality(LocationPairs(inv))
        /\ \A pair \in LocationPairs(inv) :
              \E k \in 1..Len(ret.locations.value) :
                  ret.locations.value[k] =
                      [id |-> inv[pair[1]].name \o "/" \o inv[pair[2]].name,
                       name |-> inv[pair[2]].name]

(***************************************************************************)
(* C9: _get_datacenter always terminates; it returns the nearest           *)
(* Datacenter above the object when there is one, and raises when the      *)
(* root is passed without finding one.                                     *)
(***************************************************************************)
C9_Outcome ==
    /\ gd.pc = "returned" =>
          /\ gd.datacenter # None
          /\ gd.datacenter = DatacenterAbove(inv, gd.obj)
    /\ gd.pc = "raised" =>
          /\ gd.exc = "AttributeError"
          /\ DatacenterAbove(inv, gd.obj) = None

\* C9: the walk ends as C9_Outcome says, and a walk in its loop always ends
C9_WalkTerminates ==
    /\ []C9_Outcome
    /\ (gd.pc = "loop") ~> (gd.pc \in {"returned", "raised"})

\* the walk from an object of the inventory passed the root and raised
C9_Witness ==
    /\ gd.pc = "raised"
    /\ gd.obj # None
    /\ gd.obj # Root

(***************************************************************************)
(* The remote operations of the running call, by kind.                     *)
(***************************************************************************)
IssuedAt(op) == {k \in 1..Len(issued) : issued[k].op = op}

TaskDone(k) == tasks[issued[k].task].completeTime

(***************************************************************************)
(* C1: destroy_node goes by the power state the VM has when the call       *)
(* resolves it, never by the state of the record it was passed: not        *)
(* powered off, it issues exactly one PowerOff and Destroy only once that  *)
(* task has a completion time; powered off, it issues Destroy and no       *)
(* PowerOff.  Destroy is never issued while a PowerOff of the call is      *)
(* incomplete.                                                             *)
(***************************************************************************)
C1_DestroyAfterPowerOff ==
    (call.op = "destroy_node" /\ call.pc # "raised") =>
        /\ inv[call.n].instanceUuid = call.arg.id
        /\ Cardinality(IssuedAt("Destroy")) <= 1
        /\ call.pc = "done" => Cardinality(IssuedAt("Destroy")) = 1
        /\ \A k \in 1..Len(issued) :
              issued[k].op \in {"PowerOff", "Destroy"} /\ issued[k].target = call.n
        /\ IF call.livePower = "poweredOff"
           THEN IssuedAt("PowerOff") = {}
           ELSE /\ Cardinality(IssuedAt("PowerOff")) <= 1
                /\ call.pc \in {"while", "destroy", "done"} =>
                      Cardinality(IssuedAt("PowerOff")) = 1
                /\ \A d \in IssuedAt("Destroy") :
                      \E k \in IssuedAt("PowerOff") : k < d /\ TaskDone(k)
        /\ \A k \in IssuedAt("PowerOff") :
              ~TaskDone(k) => IssuedAt("Destroy") = {}

\* destroy_node returned after powering off a VM that the caller's record
\* called stopped
C1_Witness ==
    /\ call.op = "destroy_node"
    /\ call.pc = "done"
    /\ call.arg.state = NodeState.STOPPED
    /\ call.livePower = "poweredOn"
    /\ IssuedAt("PowerOff") # {}

(***************************************************************************)
(* C4: destroy_node on a VM that is not powered off gets past its wait     *)
(* only when the PowerOff task has a completion time: as long as the task  *)
(* has none the call stays in the wait and issues nothing.                 *)
(***************************************************************************)
C4_Waiting == call.op = "destroy_node" /\ call.pc = "while"

C4_PastTheWait ==
    (/\ call.op = "destroy_node"
     /\ call.pc \in {"destroy", "done"}
     /\ call.livePower # "poweredOff") =>
        /\ call.task # None
        /\ tasks[call.task].op = "PowerOff"
        /\ tasks[call.task].completeTime

\* C4: past the wait only with the PowerOff task complete, and no step that
\* leaves the task incomplete takes the call out of the wait or issues Destroy
C4_ReturnsOnlyOnCompletion ==
    /\ []C4_PastTheWait
    /\ [][(C4_Waiting /\ ~tasks'[call.task].completeTime) =>
             (C4_Waiting' /\ issued' = issued)]_vars

\* the call is in its wait, the task incomplete
C4_Witness ==
    /\ C4_Waiting
    /\ ~tasks[call.task].completeTime
    /\ IssuedAt("Destroy") = {}

(***************************************************************************)
(* C3: reboot_node or destroy_node of an id that is not in the inventory   *)
(* ends in a LookupFailure, not in the AttributeError of a call on None,   *)
(* and issues no remote operation.                                         *)
(***************************************************************************)
C3_LookupFailure ==
    (/\ call.op \in {"reboot_node", "destroy_node"}
     /\ call.pc \in {"done", "raised"}
     /\ call.n = None) =>
        /\ call.pc = "raised"
        /\ call.exc = "LookupFailure"
        /\ issued = <<>>

(***************************************************************************)
(* C8: reboot_node of a node that resolves issues exactly one remote       *)
(* operation on it and does not wait: PowerOn when the node's state is     *)
(* STOPPED, RebootGuest otherwise; never PowerOff or Destroy.              *)
(***************************************************************************)
C8_RebootIssuesOne ==
    (call.op = "reboot_node" /\ call.n # None) =>
        /\ call.pc = "done"
        /\ Len(issued) = 1
        /\ issued[1].target = call.n
        /\ inv[call.n].instanceUuid = call.arg.id
        /\ issued[1].op = IF call.arg.state = NodeState.STOPPED
                          THEN "PowerOn" ELSE "RebootGuest"
        /\ IssuedAt("PowerOff") = {}
        /\ IssuedAt("Destroy") = {}

\* reboot_node of a stopped node has returned, its PowerOn task incomplete
C8_Witness ==
    /\ call.op = "reboot_node"
    /\ call.pc = "done"
    /\ Len(issued) = 1
    /\ issued[1].op = "PowerOn"
    /\ ~tasks[issued[1].task].completeTime

(***************************************************************************)
(* C7: create_node resolves the template by the image id and the cluster   *)
(* by the location's name and issues exactly one Clone on the template:    *)
(* datastore the template's first, pool the cluster's resource pool,       *)
(* powerOn true, folder the VM folder of the template's datacenter; it     *)
(* returns the task without waiting for it.                                *)
(***************************************************************************)
C7_CloneRequest ==
    (call.op = "create_node" /\ call.pc = "done") =>
        /\ Len(issued) = 1
        /\ LET clone == issued[1] IN
           /\ clone.op = "Clone"
           /\ inv[clone.target].kind = "VirtualMachine"
           /\ inv[clone.target].instanceUuid = call.arg.clone_from.id
           /\ clone.args.name = call.arg.name
           /\ clone.args.spec.location.datastore = Head(inv[clone.target].datastore)
           /\ \E cl \in Objects(inv) :
                 /\ inv[cl].kind = "ClusterComputeResource"
                 /\ inv[cl].name = call.arg.location.name
                 /\ clone.args.spec.location.pool = inv[cl].resourcePool
           /\ clone.args.spec.powerOn = TRUE
           /\ clone.args.folder = inv[DatacenterAbove(inv, clone.target)].vmFolder
           /\ call.task = clone.task
           /\ tasks[clone.task].op = "Clone"

\* create_node has returned the task of a clone of the template u2, which
\* has two datastores, and the task is incomplete
C7_Witness ==
    /\ call.op = "create_node"
    /\ call.pc = "done"
    /\ call.arg.clone_from.id = "u2"
    /\ Len(inv[call.n].datastore) = 2
    /\ ~tasks[call.task].completeTime

(***************************************************************************)
(* C10: _to_node maps poweredOn to RUNNING, poweredOff to STOPPED,         *)
(* suspended to SUSPENDED and every other power state to UNKNOWN; the      *)
(* state of a node is always one of the four.                              *)
(***************************************************************************)
ExpectedState(powerState) ==
    CASE powerState = "poweredOn" -> NodeState.RUNNING
      [] powerState = "poweredOff" -> NodeState.STOPPED
      [] powerState = "suspended" -> NodeState.SUSPENDED
      [] OTHER -> NodeState.UNKNOWN

VmOfUuid(uuid) == CHOOSE v \in Objects(inv) : inv[v].instanceUuid = uuid

\* C10: every translated node has the state the table gives its VM's power
\* state, UNKNOWN outside the table, and the translation does not raise
C10_StateMapping ==
    /\ ret.nodes.outcome # "none" =>
          /\ ret.nodes.outcome = "ok"
          /\ \A k \in 1..Len(ret.nodes.value) :
                LET node == ret.nodes.value[k] IN
                /\ node.state = ExpectedState(inv[VmOfUuid(node.id)].powerState)
                /\ node.state \in {NodeState.RUNNING, NodeState.STOPPED,
                                   NodeState.SUSPENDED, NodeState.UNKNOWN}
    /\ (call.op = "destroy_node" /\ call.n # None) =>
          /\ call.pc # "raised"
          /\ call.node.state = ExpectedState(call.livePower)
          /\ call.node.state \in {NodeState.RUNNING, NodeState.STOPPED,
                                  NodeState.SUSPENDED, NodeState.UNKNOWN}

\* a listed node whose VM has a power state outside the table
C10_Witness ==
    /\ ret.nodes.outcome = "ok"
    /\ \E k \in 1..Len(ret.nodes.value) :
          /\ ret.nodes.value[k].state = NodeState.UNKNOWN
          /\ inv[VmOfUuid(ret.nodes.value[k].id)].powerState = "paused"

====
